---- MODULE Spec2Model ----
(***************************************************************************)
(* Model of the DatabaseBackup controller (db_backup_controller.go): the   *)
(* Reconcile pass of DatabaseBackupReconciler, stepped through the places   *)
(* where it reads the clock or calls the API server, together with the      *)
(* environment it runs in (the clock, the job platform, the user editing    *)
(* or deleting the policy).                                                  *)
(*                                                                           *)
(* Time is counted in ticks since local midnight of day 0; a second is      *)
(* TicksPerSecond ticks.  Optional values (Go nil pointers) are <<>> or     *)
(* <<v>>; the empty Go string in ActiveBackupJob and FailureReason is <<>>. *)
(***************************************************************************)
EXTENDS Integers, Sequences, FiniteSets, TLC

VARIABLES
    clock,      \* what time.Now() returns
    exists,     \* whether the DatabaseBackup object is in the API server
    schedule,   \* Spec.Schedule of the stored object, as a sequence of fields
    status,     \* Status of the stored object (DatabaseBackupStatus)
    jobs,       \* the batch Jobs in the namespace: name -> Status.Conditions
    pc,         \* position of the reconciler inside Reconcile
    dbBackup,   \* the pass's locals: its copy of the policy, and job and err
                \* of the job lookup and of the job creation
    due,        \* the work queue's timer for the next pass: <<>> or <<t>>
    result,     \* what the last finished pass returned: [RequeueAfter, err]
    pass,       \* history of the pass under way
    created,    \* number of jobs created so far
    names,      \* the names of the jobs created so far
    cur,        \* the name of the policy whose pass the variables above follow
    peer,       \* a second policy in the namespace, as a record of the same
                \* fields (see Swap)
    build       \* createBackupJob: the policy's Spec, whether the Job was put
                \* together in the pass under way, and the Job handed to
                \* r.Create

vars == <<clock, exists, schedule, status, jobs, pc, dbBackup, due,
          result, pass, created, names, cur, peer, build>>

----------------------------------------------------------------------------
(* Bounds of the model *)

\* resolution of the clock: ticks per second
TicksPerSecond == 2
\* the clock is sampled on a minute boundary and on each of the MaxOffset
\* ticks that follow it
MaxOffset == 1
\* the seconds of a run with two policies
PairSeconds == 61

----------------------------------------------------------------------------
(* Time *)

Second == TicksPerSecond
Minute == 60 * Second

Nil == <<>>
Some(v) == <<v>>

\* instants at which the model reads the clock: 00:00 and 00:01 and the
\* ticks that follow each, the tick before 00:01, and 00:30
ClockSamples ==
    { b + o : b \in {0, Minute}, o \in 0..MaxOffset }
        \cup {Minute - 1, 30 * Minute}

----------------------------------------------------------------------------
(* The cron schedule (github.com/robfig/cron, ParseStandard and Next) *)

Star == [kind |-> "star", n |-> 0]
Num(k) == [kind |-> "num", n |-> k]
Word == [kind |-> "word", n |-> 0]

EveryMinute == <<Star, Star, Star, Star, Star>>
DailyAtOne == <<Num(0), Num(1), Star, Star, Star>>
FourFields == <<Star, Star, Star, Star>>
MinuteOutOfRange == <<Num(60), Star, Star, Star, Star>>
NotCron == <<Word>>

\* the values of one field: "*" is the whole range, a number in range is
\* itself, anything else does not parse ({})
ParseField(f, lo, hi) ==
    IF f.kind = "star" THEN lo..hi
    ELSE IF f.kind = "num" /\ f.n \in lo..hi THEN {f.n}
    ELSE {}

ParseStandard(s) ==
    IF Len(s) # 5
    THEN [err |-> "expected exactly 5 fields", minute |-> {}, hour |-> {},
          dom |-> {}, month |-> {}, dow |-> {}]
    ELSE LET mi == ParseField(s[1], 0, 59)
             ho == ParseField(s[2], 0, 23)
             dm == ParseField(s[3], 1, 31)
             mo == ParseField(s[4], 1, 12)
             dw == ParseField(s[5], 0, 6)
         IN  [err |-> IF {} \in {mi, ho, dm, mo, dw}
                      THEN "failed to parse field" ELSE "nil",
              minute |-> mi, hour |-> ho, dom |-> dm, month |-> mo, dow |-> dw]

\* the first minute >= m whose hour and minute are in the schedule; minutes
\* are counted from midnight of day 0 (schedules of the model leave the day
\* of month, the month and the day of week at "*")
RECURSIVE NextMatch(_, _)
NextMatch(sched, m) ==
    IF ((m \div 60) % 24) \notin sched.hour
    THEN NextMatch(sched, ((m \div 60) + 1) * 60)
    ELSE IF (m % 60) \notin sched.minute
    THEN NextMatch(sched, m + 1)
    ELSE m

\* a Next that returns t itself when t is an activation time
ScheduleNext_NotStrict(sched, t) ==
    NextMatch(sched, (t + Minute - 1) \div Minute) * Minute

\* Schedule.Next(t): the next activation time, later than t
ScheduleNext(sched, t) == NextMatch(sched, (t \div Minute) + 1) * Minute

----------------------------------------------------------------------------
(* Helpers of the controller *)

Cond(t, s) == [type |-> t, status |-> s]

isJobComplete(conds) ==
    \E i \in 1..Len(conds) :
        /\ conds[i].type \in {"Complete", "Failed"}
        /\ conds[i].status = "True"

\* an isJobSuccessful that takes any finished job for a successful one
isJobSuccessful_AnyFinished(conds) ==
    \E i \in 1..Len(conds) :
        /\ conds[i].type \in {"Complete", "Failed"}
        /\ conds[i].status = "True"

isJobSuccessful(conds) ==
    \E i \in 1..Len(conds) :
        conds[i].type = "Complete" /\ conds[i].status = "True"

\* an isJobFailed that tests the condition's status against "False"
isJobFailed_WrongStatus(conds) ==
    \E i \in 1..Len(conds) :
        conds[i].type = "Failed" /\ conds[i].status = "False"

isJobFailed(conds) ==
    \E i \in 1..Len(conds) :
        conds[i].type = "Failed" /\ conds[i].status = "True"

\* an isTimeToBackup with the comparison turned round
isTimeToBackup_Before(nextScheduled, now1, now2) ==
    IF nextScheduled = Nil THEN TRUE
    ELSE now1 < nextScheduled[1] \/ now2 = nextScheduled[1]

\* now1 and now2 are the two readings of the clock in the return expression;
\* the second is taken only when the first is not after the scheduled time
isTimeToBackup(nextScheduled, now1, now2) ==
    IF nextScheduled = Nil THEN TRUE
    ELSE now1 > nextScheduled[1] \/ now2 = nextScheduled[1]

FirstPolicy == "postgres-daily-backup"
SecondPolicy == "mysql-nightly-backup"

PolicyNames == {FirstPolicy, SecondPolicy}

\* dbBackup.Name of the pass
PolicyName == cur

\* a job name that does not carry the policy's name
JobName_NoPolicy(name, now) == <<"backup", now \div Second>>

\* a job name that carries the date only
JobName_ByDay(name, now) == <<name, now \div (24 * 60 * Minute)>>

\* fmt.Sprintf("%s-%s", dbBackup.Name, time.Now().Format("20060102150405")):
\* the policy's name and the time cut to whole seconds
JobName(name, now) == <<name, now \div Second>>

FailedReason == <<"Backup job failed, check job logs for details">>
InvalidScheduleReason(err) == <<"Invalid schedule: ", err>>
CreateFailedReason(err) == <<"Failed to create backup job: ", err>>

\* the delay Reconcile returns, from Status.NextScheduledBackup and the clock
RequeueDelay(nextScheduled, now) ==
    IF nextScheduled # Nil
    THEN IF nextScheduled[1] - now < 0 THEN Second
         ELSE nextScheduled[1] - now
    ELSE Minute

----------------------------------------------------------------------------
(* Initial state: a policy just created by the user, no status, no job *)

Schedules == {EveryMinute, DailyAtOne, MinuteOutOfRange}

EmptyStatus ==
    [LastSuccessfulBackup |-> Nil,
     LastBackupStatus     |-> "",
     NextScheduledBackup  |-> Nil,
     FailureReason        |-> <<>>,
     ActiveBackupJob      |-> <<>>]

NoJobs == [n \in {} |-> <<>>]

\* the locals of Reconcile between passes: dbBackup.Spec.Schedule and
\* dbBackup.Status; job and err of lines 60-66 (the conditions of the job
\* looked up, and the outcome); job and err of line 123 (the name of the job
\* created, and the outcome)
NoLocal ==
    [Schedule |-> <<>>, Status |-> EmptyStatus, Stale |-> FALSE,
     Job |-> <<>>, GetErr |-> "nil", NewJob |-> <<>>, CreateErr |-> "nil"]

\* a watch event puts the policy in the work queue: a pass is due at once,
\* whatever the time is
Queued == Some(0)

\* ctrl.Result{}, nil
NoResult == [RequeueAfter |-> 0, err |-> "nil"]

\* the jobs of the map js that carry the name of policy p
OwnedBy(js, p) == [n \in {m \in DOMAIN js : m[1] = p} |-> js[n]]

\* history of a pass: the stored status when it fetched the policy and
\* whether the stored next scheduled time had come by then, the job lookup's
\* outcome, the names of the jobs it created, the number of status writes
\* that succeeded, and how it ended
NewPass ==
    [start |-> EmptyStatus, late |-> FALSE, observed |-> "none",
     created |-> <<>>, writes |-> 0, ended |-> "no"]

\* the Spec fields of the sample policy that createBackupJob reads
SampleSpec ==
    [DatabaseType |-> "postgres",
     StorageDestination |-> [Type |-> "s3", Bucket |-> "my-database-backups",
                             Path |-> "postgres/daily", PVCName |-> "",
                             SecretName |-> "s3-credentials"]]

\* a Job with no name, no owner, no container image, no environment, no
\* volume and no volume mount
NoJob ==
    [Name |-> <<>>, Owner |-> <<>>, Image |-> <<>>, Env |-> <<>>,
     Volumes |-> <<>>, VolumeMounts |-> <<>>]

\* createBackupJob not called
NoBuild == [Spec |-> SampleSpec, at |-> "entry", job |-> NoJob]

\* no second policy
NoPeer ==
    [name |-> "", exists |-> FALSE, schedule |-> <<>>, status |-> EmptyStatus,
     pc |-> "idle", dbBackup |-> NoLocal, due |-> Nil, result |-> NoResult,
     pass |-> NewPass, build |-> NoBuild]

Init ==
    /\ clock = 0
    /\ exists = TRUE
    /\ schedule \in Schedules
    /\ status = EmptyStatus
    /\ jobs = NoJobs
    /\ pc = "idle"
    /\ dbBackup = NoLocal
    /\ due = Queued
    /\ result = NoResult
    /\ pass = NewPass
    /\ created = 0
    /\ names = {}
    /\ cur = FirstPolicy
    /\ peer = NoPeer
    /\ build = NoBuild

----------------------------------------------------------------------------
(* The API server, as the pass sees it *)

\* a call fails for a reason that passes: the server is unreachable or, for
\* a write, the object was changed since the pass fetched it
Transient == {"Transient"}

\* r.Get of the policy
GetOutcomes == (IF exists THEN {"nil"} ELSE {"NotFound"}) \cup Transient

\* r.Status().Update of the local copy: NotFound when the policy is gone,
\* Conflict when the policy has been edited since the pass read it
UpdateOutcomes ==
    (IF ~exists THEN {"NotFound"}
     ELSE IF dbBackup.Stale THEN {"Conflict"}
     ELSE {"nil"}) \cup Transient

\* r.Get of a job
GetJobOutcomes(name) ==
    (IF name \in DOMAIN jobs THEN {"nil"} ELSE {"NotFound"}) \cup Transient

\* r.Create of a job
CreateOutcomes(name) ==
    (IF name \in DOMAIN jobs THEN {"AlreadyExists"} ELSE {"nil"}) \cup Transient

\* the pass returns ctrl.Result{RequeueAfter: res}, err
Return(res, err, p, how) ==
    /\ pc' = "returned"
    /\ result' = [RequeueAfter |-> res, err |-> err]
    /\ pass' = [p EXCEPT !.ended = how]
    /\ UNCHANGED dbBackup

\* the pass goes on to step next with local status st and history p
Continue(next, st, p) ==
    /\ pc' = next
    /\ dbBackup' = [NoLocal EXCEPT !.Schedule = dbBackup.Schedule,
                                   !.Status = st,
                                   !.Stale = dbBackup.Stale]
    /\ pass' = p
    /\ UNCHANGED result

\* a status write whose failure is logged and not returned
UpdateOrReturn_Swallow(st, e, next, p) ==
    /\ status' = IF e = "nil" THEN st ELSE status
    /\ Continue(next, st, [p EXCEPT !.writes = @ + (IF e = "nil" THEN 1 ELSE 0)])

\* r.Status().Update(ctx, &dbBackup) with local status st and outcome e,
\* followed by `return ctrl.Result{}, err` when it failed and by step next
\* when it succeeded
UpdateOrReturn(st, e, next, p) ==
    /\ status' = IF e = "nil" THEN st ELSE status
    /\ IF e = "nil"
       THEN Continue(next, st, [p EXCEPT !.writes = @ + 1])
       ELSE Return(0, e, p, "error")

----------------------------------------------------------------------------
(* Reconcile, step by step *)

\* a NotFound handed on to the caller
NotFoundResult_Error == [RequeueAfter |-> 0, err |-> "NotFound"]

\* line 42: the result returned when the policy is not found, ctrl.Result{}
NotFoundResult == NoResult

\* lines 37-47: fetch the DatabaseBackup instance
Fetch ==
    /\ pc = "idle"
    /\ \E e \in GetOutcomes :
        LET p == [NewPass EXCEPT
                     !.start = status,
                     !.late = /\ status.NextScheduledBackup # Nil
                              /\ status.NextScheduledBackup[1] <= clock]
        IN  IF e = "NotFound"
            THEN Return(NotFoundResult.RequeueAfter, NotFoundResult.err, p,
                        "notfound")
            ELSE IF e # "nil"
            THEN Return(0, e, p, "error")
            ELSE /\ dbBackup' = [NoLocal EXCEPT !.Schedule = schedule,
                                                !.Status = status]
                 /\ pass' = p
                 /\ pc' = "bootstrap"
                 /\ result' = result
    /\ due' = Nil
    /\ UNCHANGED <<clock, exists, schedule, status, jobs, created, names, cur,
                   peer, build>>

\* an initialisation that leaves the status as it found it
BootstrapStatus_Unset(st) == st

\* line 51
BootstrapStatus(st) == [st EXCEPT !.LastBackupStatus = "Pending"]

\* lines 49-56: initialize status if it doesn't exist
Bootstrap ==
    /\ pc = "bootstrap"
    /\ IF dbBackup.Status.LastBackupStatus = ""
       THEN \E e \in UpdateOutcomes :
            UpdateOrReturn(BootstrapStatus(dbBackup.Status), e, "activeJob",
                           pass)
       ELSE /\ Continue("activeJob", dbBackup.Status, pass)
            /\ status' = status
    /\ UNCHANGED <<clock, exists, schedule, jobs, due, created, names, cur,
                   peer, build>>

\* a lookup step that forgets the last success when the job failed
AfterJobLookup_ClearsLastSuccess(st, g, conds, now) ==
    LET seen ==
            IF g = "nil" /\ isJobSuccessful(conds)
            THEN [st EXCEPT !.LastSuccessfulBackup = Some(now),
                            !.LastBackupStatus = "Succeeded",
                            !.FailureReason = <<>>]
            ELSE IF g = "nil" /\ isJobFailed(conds)
            THEN [st EXCEPT !.LastSuccessfulBackup = Nil,
                            !.LastBackupStatus = "Failed",
                            !.FailureReason = FailedReason]
            ELSE st
    IN  [seen EXCEPT !.ActiveBackupJob = <<>>]

\* a lookup step that keeps the reference to a job that failed
AfterJobLookup_KeepsFailedRef(st, g, conds, now) ==
    IF g = "nil" /\ isJobSuccessful(conds)
    THEN [st EXCEPT !.LastSuccessfulBackup = Some(now),
                    !.LastBackupStatus = "Succeeded",
                    !.FailureReason = <<>>,
                    !.ActiveBackupJob = <<>>]
    ELSE IF g = "nil" /\ isJobFailed(conds)
    THEN [st EXCEPT !.LastBackupStatus = "Failed",
                    !.FailureReason = FailedReason]
    ELSE [st EXCEPT !.ActiveBackupJob = <<>>]

\* a lookup step that also forgets the next scheduled time
AfterJobLookup_ResetsNext(st, g, conds, now) ==
    LET seen ==
            IF g = "nil" /\ isJobSuccessful(conds)
            THEN [st EXCEPT !.LastSuccessfulBackup = Some(now),
                            !.LastBackupStatus = "Succeeded",
                            !.FailureReason = <<>>]
            ELSE IF g = "nil" /\ isJobFailed(conds)
            THEN [st EXCEPT !.LastBackupStatus = "Failed",
                            !.FailureReason = FailedReason]
            ELSE st
    IN  [seen EXCEPT !.ActiveBackupJob = <<>>, !.NextScheduledBackup = Nil]

\* a lookup step that leaves the failure reason in place after a success
AfterJobLookup_KeepsReason(st, g, conds, now) ==
    LET seen ==
            IF g = "nil" /\ isJobSuccessful(conds)
            THEN [st EXCEPT !.LastSuccessfulBackup = Some(now),
                            !.LastBackupStatus = "Succeeded"]
            ELSE IF g = "nil" /\ isJobFailed(conds)
            THEN [st EXCEPT !.LastBackupStatus = "Failed",
                            !.FailureReason = FailedReason]
            ELSE st
    IN  [seen EXCEPT !.ActiveBackupJob = <<>>]

\* a lookup step that records a job that is gone as a failed one
AfterJobLookup_AbsentIsFailed(st, g, conds, now) ==
    LET seen ==
            IF g = "nil" /\ isJobSuccessful(conds)
            THEN [st EXCEPT !.LastSuccessfulBackup = Some(now),
                            !.LastBackupStatus = "Succeeded",
                            !.FailureReason = <<>>]
            ELSE IF g = "NotFound" \/ isJobFailed(conds)
            THEN [st EXCEPT !.LastBackupStatus = "Failed",
                            !.FailureReason = FailedReason]
            ELSE st
    IN  [seen EXCEPT !.ActiveBackupJob = <<>>]

\* lines 73-86: the status after the active job was looked up with outcome g
\* and, when found, conditions conds
AfterJobLookup(st, g, conds, now) ==
    LET seen ==
            IF g = "nil" /\ isJobSuccessful(conds)
            THEN [st EXCEPT !.LastSuccessfulBackup = Some(now),
                            !.LastBackupStatus = "Succeeded",
                            !.FailureReason = <<>>]
            ELSE IF g = "nil" /\ isJobFailed(conds)
            THEN [st EXCEPT !.LastBackupStatus = "Failed",
                            !.FailureReason = FailedReason]
            ELSE st
    IN  [seen EXCEPT !.ActiveBackupJob = <<>>]

\* what the pass saw of the job: the branch of lines 73-83 taken
Observation(g, conds) ==
    IF g = "NotFound" THEN "absent"
    ELSE IF ~isJobComplete(conds) THEN "running"
    ELSE IF isJobSuccessful(conds) THEN "succeeded"
    ELSE IF isJobFailed(conds) THEN "failed"
    ELSE "complete"

\* lines 58-72: check if there's an active backup job, and look it up
ActiveJob ==
    /\ pc = "activeJob"
    /\ IF dbBackup.Status.ActiveBackupJob = <<>>
       THEN Continue("schedule", dbBackup.Status, pass)
       ELSE LET name == dbBackup.Status.ActiveBackupJob
                conds == IF name \in DOMAIN jobs THEN jobs[name] ELSE <<>>
            IN  \E g \in GetJobOutcomes(name) :
                IF g \notin {"nil", "NotFound"}
                THEN Return(0, g, pass, "error")
                ELSE LET p == [pass EXCEPT !.observed = Observation(g, conds)]
                     IN  IF g = "NotFound" \/ isJobComplete(conds)
                         THEN /\ pc' = "jobDone"
                              /\ dbBackup' = [dbBackup EXCEPT !.Job = conds,
                                                              !.GetErr = g]
                              /\ pass' = p
                              /\ UNCHANGED result
                         ELSE Continue("schedule", dbBackup.Status, p)
    /\ UNCHANGED <<clock, exists, schedule, status, jobs, due, created, names,
                   cur, peer, build>>

\* lines 73-90: the job is completed or not found: record what became of it
\* and clear the active job field
JobDone ==
    /\ pc = "jobDone"
    /\ \E e \in UpdateOutcomes :
        UpdateOrReturn(AfterJobLookup(dbBackup.Status, dbBackup.GetErr,
                                      dbBackup.Job, clock),
                       e, "schedule", pass)
    /\ UNCHANGED <<clock, exists, schedule, jobs, due, created, names, cur,
                   peer, build>>

\* a parse failure recorded without its reason
ParseErrorStatus_NoReason(st, err) ==
    [st EXCEPT !.LastBackupStatus = "Error"]

\* lines 98-99
ParseErrorStatus(st, err) ==
    [st EXCEPT !.LastBackupStatus = "Error",
               !.FailureReason = InvalidScheduleReason(err)]

\* lines 111-112: the next scheduled backup is unset or has changed
NextRunChanged(st, nextRun) ==
    st.NextScheduledBackup = Nil \/ st.NextScheduledBackup # Some(nextRun)

\* line 103: the result returned after the parse failure was recorded,
\* ctrl.Result{}
ParseFailureResult == NoResult

\* lines 94-118: calculate next run based on cron schedule
ScheduleEval ==
    /\ pc = "schedule"
    /\ LET sched == ParseStandard(dbBackup.Schedule)
           nextRun == ScheduleNext(sched, clock)
       IN  IF sched.err # "nil"
           THEN \E e \in UpdateOutcomes :
                /\ status' = IF e = "nil"
                             THEN ParseErrorStatus(dbBackup.Status, sched.err)
                             ELSE status
                /\ IF e = "nil"
                   THEN Return(ParseFailureResult.RequeueAfter,
                               ParseFailureResult.err,
                               [pass EXCEPT !.writes = @ + 1], "parse")
                   ELSE Return(0, e, pass, "error")
           ELSE IF NextRunChanged(dbBackup.Status, nextRun)
           THEN \E e \in UpdateOutcomes :
                UpdateOrReturn([dbBackup.Status EXCEPT
                                   !.NextScheduledBackup = Some(nextRun)],
                               e, "trigger", pass)
           ELSE /\ Continue("trigger", dbBackup.Status, pass)
                /\ status' = status
    /\ UNCHANGED <<clock, exists, schedule, jobs, due, created, names, cur,
                   peer, build>>

\* the instants at which the second reading of the clock in isTimeToBackup
\* can fall: within a second of the first
SecondReads(now1) == { t \in ClockSamples : now1 <= t /\ t <= now1 + Second }

\* a trigger decision that does not look at the active job
ShouldBackup_IgnoresActiveJob(st, now1, now2) ==
    isTimeToBackup(st.NextScheduledBackup, now1, now2)

\* line 121: no active backup job and it's time to run one
ShouldBackup(st, now1, now2) ==
    st.ActiveBackupJob = <<>> /\ isTimeToBackup(st.NextScheduledBackup, now1, now2)

\* line 121, with the clock read once or twice
TriggerDecision ==
    /\ pc = "trigger"
    /\ LET st == dbBackup.Status
           twice == /\ st.ActiveBackupJob = <<>>
                    /\ st.NextScheduledBackup # Nil
                    /\ ~(clock > st.NextScheduledBackup[1])
       IN  \E now2 \in IF twice THEN SecondReads(clock) ELSE {clock} :
            /\ clock' = now2
            /\ Continue(IF ShouldBackup(st, clock, now2) THEN "create"
                        ELSE "requeue", st, pass)
    /\ UNCHANGED <<exists, schedule, status, jobs, due, created, names, cur,
                   peer, build>>

\* a failure status that does not say what went wrong
CreateErrorStatus_NoCause(st, err) ==
    [st EXCEPT !.LastBackupStatus = "Error",
               !.FailureReason = <<"Failed to create backup job">>]

\* lines 126-127
CreateErrorStatus(st, err) ==
    [st EXCEPT !.LastBackupStatus = "Error",
               !.FailureReason = CreateFailedReason(err)]

\* a job reference stored without the status Running
RunningStatus_RefOnly(st, jobName) == [st EXCEPT !.ActiveBackupJob = jobName]

\* lines 135-136
RunningStatus(st, jobName) ==
    [st EXCEPT !.ActiveBackupJob = jobName, !.LastBackupStatus = "Running"]

\* a backup image that knows no mongodb
getBackupImage_NoMongo(dbType) ==
    CASE dbType = "postgres" -> "ghcr.io/example/postgres-backup:latest"
      [] dbType = "mysql"    -> "ghcr.io/example/mysql-backup:latest"
      [] OTHER               -> "ghcr.io/example/generic-backup:latest"

\* lines 300-311
getBackupImage(dbType) ==
    CASE dbType = "postgres" -> "ghcr.io/example/postgres-backup:latest"
      [] dbType = "mysql"    -> "ghcr.io/example/mysql-backup:latest"
      [] dbType = "mongodb"  -> "ghcr.io/example/mongodb-backup:latest"
      [] OTHER               -> "ghcr.io/example/generic-backup:latest"

\* corev1.Volume named name, of a claim or of a secret called of
Volume(name, kind, of) == [Name |-> name, kind |-> kind, of |-> of]

\* corev1.VolumeMount
VolumeMount(name, path) == [Name |-> name, MountPath |-> path]

\* the storage volume overwriting the lists, as lines 250-266 do
WithStorage(job, dest) ==
    IF dest.Type = "pvc" /\ dest.PVCName # ""
    THEN [job EXCEPT
             !.Volumes = <<Volume("backup-storage", "pvc", dest.PVCName)>>,
             !.VolumeMounts = <<VolumeMount("backup-storage", "/backups")>>]
    ELSE job

\* a credentials volume that takes the place of what was there
WithCredentials_Overwrites(job, dest) ==
    IF dest.SecretName # ""
    THEN [job EXCEPT
             !.Volumes =
                 <<Volume("storage-credentials", "secret", dest.SecretName)>>,
             !.VolumeMounts =
                 <<VolumeMount("storage-credentials", "/credentials")>>]
    ELSE job

\* the credentials volume appended to the lists, as lines 271-285 do
WithCredentials(job, dest) ==
    IF dest.SecretName # ""
    THEN [job EXCEPT
             !.Volumes = Append(@,
                 Volume("storage-credentials", "secret", dest.SecretName)),
             !.VolumeMounts = Append(@,
                 VolumeMount("storage-credentials", "/credentials"))]
    ELSE job

\* corev1.EnvVar
EnvVar(name, value) == [Name |-> name, Value |-> value]

\* lines 205-247: the Job with its name and its one container
JobWithContainer(name, now, spec) ==
    [NoJob EXCEPT
        !.Name = JobName(name, now),
        !.Image = getBackupImage(spec.DatabaseType),
        !.Env = <<EnvVar("DB_TYPE", spec.DatabaseType),
                  EnvVar("STORAGE_TYPE", spec.StorageDestination.Type),
                  EnvVar("BUCKET", spec.StorageDestination.Bucket),
                  EnvVar("PATH", spec.StorageDestination.Path)>>]

\* lines 205-290: the Job that createBackupJob puts together for the policy
\* called name at time now, owned by the policy
BackupJob(name, now, spec) ==
    LET dest == spec.StorageDestination
    IN  [WithCredentials(WithStorage(JobWithContainer(name, now, spec), dest),
                         dest)
            EXCEPT !.Owner = name]

\* lines 122-123 and createBackupJob: put the Job together, named after the
\* policy and the time, and submit it
CreateJob ==
    /\ pc = "create"
    /\ LET job == BackupJob(PolicyName, clock, build.Spec)
           name == job.Name
       IN  /\ build' = [build EXCEPT !.at = "built", !.job = job]
           /\ \E c \in CreateOutcomes(name) :
                IF c # "nil"
                THEN /\ pc' = "createFailed"
                     /\ dbBackup' = [dbBackup EXCEPT !.CreateErr = c]
                     /\ UNCHANGED <<jobs, created, names, pass>>
                ELSE /\ pc' = "jobCreated"
                     /\ dbBackup' = [dbBackup EXCEPT !.NewJob = name]
                     /\ jobs' = jobs @@ (name :> <<>>)
                     /\ created' = created + 1
                     /\ names' = names \cup {name}
                     /\ pass' = [pass EXCEPT !.created = Append(@, name)]
    /\ UNCHANGED <<clock, exists, schedule, status, due, result, cur, peer>>

\* lines 124-131: the submission failed: record it if the write goes
\* through, and return the submission's error
CreateFailed ==
    /\ pc = "createFailed"
    /\ \E e \in UpdateOutcomes :
        /\ status' = IF e = "nil"
                     THEN CreateErrorStatus(dbBackup.Status, dbBackup.CreateErr)
                     ELSE status
        /\ Return(0, dbBackup.CreateErr,
                  [pass EXCEPT !.writes = @ + (IF e = "nil" THEN 1 ELSE 0)],
                  "error")
    /\ UNCHANGED <<clock, exists, schedule, jobs, due, created, names, cur,
                   peer, build>>

\* lines 134-140: update status with the active job
JobCreated ==
    /\ pc = "jobCreated"
    /\ \E e \in UpdateOutcomes :
        UpdateOrReturn(RunningStatus(dbBackup.Status, dbBackup.NewJob), e,
                       "recompute", pass)
    /\ UNCHANGED <<clock, exists, schedule, jobs, due, created, names, cur,
                   peer, build>>

\* lines 142-148: calculate next run
Recompute ==
    /\ pc = "recompute"
    /\ LET nextRun == ScheduleNext(ParseStandard(dbBackup.Schedule), clock)
       IN  \E e \in UpdateOutcomes :
            UpdateOrReturn([dbBackup.Status EXCEPT
                               !.NextScheduledBackup = Some(nextRun)],
                           e, "requeue", pass)
    /\ UNCHANGED <<clock, exists, schedule, jobs, due, created, names, cur,
                   peer, build>>

\* lines 151-162: requeue based on next scheduled backup
Requeue ==
    /\ pc = "requeue"
    /\ Return(RequeueDelay(dbBackup.Status.NextScheduledBackup, clock),
              "nil", pass, "requeue")
    /\ UNCHANGED <<clock, exists, schedule, status, jobs, due, created, names,
                   cur, peer, build>>

----------------------------------------------------------------------------
(* The work queue and the environment *)

\* the work queue after a pass returned (res, err) at time now: an error is
\* retried at once, a positive RequeueAfter sets the timer, and an empty
\* result leaves the policy to the next watch event
DueAfter(res, err, now) ==
    IF err # "nil" THEN Some(now)
    ELSE IF res > 0 THEN Some(now + res)
    ELSE Nil

\* the work queue takes the result of the pass, whose locals are gone; an
\* event that came while the pass was under way has queued the next pass
\* already
Requeued ==
    /\ pc = "returned"
    /\ pc' = "idle"
    /\ due' = IF due # Nil THEN due
              ELSE DueAfter(result.RequeueAfter, result.err, clock)
    /\ result' = NoResult
    /\ pass' = NewPass
    /\ dbBackup' = NoLocal
    /\ build' = [build EXCEPT !.at = "entry", !.job = NoJob]
    /\ UNCHANGED <<clock, exists, schedule, status, jobs, created, names, cur,
                   peer>>

\* time passes; the work queue starts a pass that is due before time moves
\* past its deadline, and a pass under way is delayed only before a step that
\* reads the clock
Tick ==
    /\ pc \notin {"bootstrap", "create", "createFailed", "jobCreated",
                   "returned"}
    /\ \E t \in ClockSamples :
        /\ t > clock
        /\ (pc = "idle" /\ due # Nil) => t <= due[1]
        /\ clock' = t
    /\ UNCHANGED <<exists, schedule, status, jobs, pc, dbBackup, due, result,
                   pass, created, names, cur, peer, build>>

\* what the job controller makes of a job's conditions when the job goes on:
\* a job succeeds at once, and fails in two steps
JobConditions(conds) ==
    IF conds = <<>>
    THEN {<<Cond("Complete", "True")>>, <<Cond("FailureTarget", "True")>>}
    ELSE {Append(conds, Cond("Failed", "True"))}

\* The platform and the user act at any moment: between two passes and
\* between any two steps of a pass.  A change of a job or of the policy is a
\* watch event, which queues a pass.  A pass under way goes on with the copy
\* of the policy it has read (line 39); once the policy has been edited the
\* copy is stale, and the API server refuses a status write made from it.

\* the positions at which the pass holds its copy of the policy
UnderWay == {"bootstrap", "activeJob", "jobDone", "schedule", "trigger",
             "create", "createFailed", "jobCreated", "recompute", "requeue"}

\* the job platform reports progress of a job
JobProgress ==
    /\ exists
    /\ \E n \in DOMAIN OwnedBy(jobs, cur) :
        /\ ~isJobComplete(jobs[n])
        /\ \E cs \in JobConditions(jobs[n]) :
            jobs' = [jobs EXCEPT ![n] = cs]
    /\ due' = Queued
    /\ UNCHANGED <<clock, exists, schedule, status, pc, dbBackup, result,
                   pass, created, names, cur, peer, build>>

\* somebody deletes a job
JobDelete ==
    /\ exists
    /\ \E n \in DOMAIN OwnedBy(jobs, cur) :
        jobs' = [m \in DOMAIN jobs \ {n} |-> jobs[m]]
    /\ due' = Queued
    /\ UNCHANGED <<clock, exists, schedule, status, pc, dbBackup, result,
                   pass, created, names, cur, peer, build>>

\* the user edits Spec.Schedule
EditSchedule ==
    /\ exists
    /\ \E s \in Schedules \ {schedule} : schedule' = s
    /\ dbBackup' = IF pc \in UnderWay
                   THEN [dbBackup EXCEPT !.Stale = TRUE]
                   ELSE dbBackup
    /\ due' = Queued
    /\ UNCHANGED <<clock, exists, status, jobs, pc, result, pass, created,
                   names, cur, peer, build>>

\* the user deletes the policy
DeletePolicy ==
    /\ exists
    /\ exists' = FALSE
    /\ schedule' = <<>>
    /\ status' = EmptyStatus
    /\ due' = Queued
    /\ UNCHANGED <<clock, jobs, pc, dbBackup, result, pass, created, names,
                   cur, peer, build>>

\* the garbage collector deletes a job whose owner, the policy, is gone
GarbageCollect ==
    /\ ~exists
    /\ \E n \in DOMAIN OwnedBy(jobs, cur) :
        jobs' = [m \in DOMAIN jobs \ {n} |-> jobs[m]]
    /\ UNCHANGED <<clock, exists, schedule, status, pc, dbBackup, due, result,
                   pass, created, names, cur, peer, build>>

----------------------------------------------------------------------------

Next ==
    \/ Fetch
    \/ Bootstrap
    \/ ActiveJob
    \/ JobDone
    \/ ScheduleEval
    \/ TriggerDecision
    \/ CreateJob
    \/ CreateFailed
    \/ JobCreated
    \/ Recompute
    \/ Requeue
    \/ Requeued
    \/ Tick
    \/ JobProgress
    \/ JobDelete
    \/ EditSchedule
    \/ DeletePolicy
    \/ GarbageCollect

Spec == Init /\ [][Next]_vars

TypeOK ==
    /\ clock \in ClockSamples
    /\ pc \in {"idle", "bootstrap", "activeJob", "jobDone", "schedule",
               "trigger", "create", "createFailed", "jobCreated",
               "recompute", "requeue", "returned"}
    /\ status.LastBackupStatus \in
           {"", "Pending", "Running", "Succeeded", "Failed", "Error"}
    /\ created <= 2
    /\ Cardinality(names) <= created
    /\ cur \in PolicyNames
    /\ peer.name \in PolicyNames \cup {""}
    /\ peer.name # cur

----------------------------------------------------------------------------
(* A quiet run: the schedule is valid and stays as it is, the policy is not  *)
(* deleted, every call to the API server succeeds, and a pass starts when    *)
(* the work queue's deadline for it has come.  Each step of a pass that can  *)
(* be taken is taken, the work queue does its part, and time goes on for as  *)
(* long as it can.                                                           *)

NoCallFailed == pass'.ended # "error"

QuietInit == Init /\ ParseStandard(schedule).err = "nil"

QuietFetch == Fetch /\ NoCallFailed /\ due # Nil /\ due[1] <= clock
QuietBootstrap == Bootstrap /\ NoCallFailed
QuietActiveJob == ActiveJob /\ NoCallFailed
QuietJobDone == JobDone /\ NoCallFailed
QuietScheduleEval == ScheduleEval /\ NoCallFailed
QuietCreateJob == CreateJob /\ dbBackup'.CreateErr = "nil"
QuietJobCreated == JobCreated /\ NoCallFailed
QuietRecompute == Recompute /\ NoCallFailed

QuietNext ==
    \/ QuietFetch
    \/ QuietBootstrap
    \/ QuietActiveJob
    \/ QuietJobDone
    \/ QuietScheduleEval
    \/ TriggerDecision
    \/ QuietCreateJob
    \/ QuietJobCreated
    \/ QuietRecompute
    \/ Requeue
    \/ Requeued
    \/ Tick
    \/ JobProgress
    \/ JobDelete

QuietFairness ==
    /\ WF_vars(QuietFetch)
    /\ WF_vars(QuietBootstrap)
    /\ WF_vars(QuietActiveJob)
    /\ WF_vars(QuietJobDone)
    /\ WF_vars(QuietScheduleEval)
    /\ WF_vars(TriggerDecision)
    /\ WF_vars(QuietCreateJob)
    /\ WF_vars(QuietJobCreated)
    /\ WF_vars(QuietRecompute)
    /\ WF_vars(Requeue)
    /\ WF_vars(Requeued)
    /\ SF_vars(Tick)

QuietSpec == QuietInit /\ [][QuietNext]_vars /\ QuietFairness

----------------------------------------------------------------------------
(* The quiet run that goes on for ever.  The clock counts from an epoch.    *)
(* For the schedule that fires every minute a pass uses the times it reads  *)
(* and stores only to compare them, to subtract them and to ask the         *)
(* schedule for the activation time that follows (lines 107, 111, 143, 154  *)
(* and 198), so that a run counted from an epoch one minute later is the    *)
(* same run.  The name of a job alone carries the time itself (line 209):   *)
(* the epoch is moved between passes, while no job has been named.          *)

\* a time counted from the epoch one minute later
FromNextEpoch(t) == IF t = Nil THEN Nil ELSE Some(t[1] - Minute)

\* the epoch moves forward by one minute: the clock, the stored next
\* scheduled time and the deadline of the queued pass are counted from it
NextEpoch ==
    /\ pc = "idle"
    /\ exists
    /\ schedule = EveryMinute
    /\ created = 0
    /\ jobs = NoJobs
    /\ status.LastSuccessfulBackup = Nil
    /\ clock - Minute \in ClockSamples
    /\ status.NextScheduledBackup # Nil => status.NextScheduledBackup[1] >= Minute
    /\ due # Nil => due[1] >= Minute
    /\ clock' = clock - Minute
    /\ status' = [status EXCEPT
                     !.NextScheduledBackup = FromNextEpoch(@)]
    /\ due' = FromNextEpoch(due)
    /\ UNCHANGED <<exists, schedule, jobs, pc, dbBackup, result, pass,
                   created, names, cur, peer, build>>

LongRunNext ==
    \/ QuietFetch
    \/ QuietBootstrap
    \/ QuietActiveJob
    \/ QuietJobDone
    \/ QuietScheduleEval
    \/ TriggerDecision
    \/ QuietCreateJob
    \/ QuietJobCreated
    \/ QuietRecompute
    \/ Requeue
    \/ Requeued
    \/ Tick
    \/ JobProgress
    \/ JobDelete
    \/ NextEpoch

LongRunSpec == QuietInit /\ [][LongRunNext]_vars /\ QuietFairness

----------------------------------------------------------------------------
(* Two policies in one namespace.  The variables exists .. pass follow one   *)
(* policy and peer holds the same fields of the other; Swap exchanges the    *)
(* two, so that the steps of Reconcile above run for either policy, a step   *)
(* of one pass between any two steps of the other; the clock and the jobs    *)
(* are common to both.  Time passes as in Spec, for both passes, up to the   *)
(* first seconds after the first minute boundary, so that both passes can    *)
(* find a backup due and submit their jobs within one second.  Calls to the  *)
(* API server succeed, but for the submission of a job, which can fail as in *)
(* Spec, and the status write that records the failure.                      *)

\* the fields of the policy the pass variables follow
Context ==
    [name |-> cur, exists |-> exists, schedule |-> schedule,
     status |-> status, pc |-> pc, dbBackup |-> dbBackup, due |-> due,
     result |-> result, pass |-> pass, build |-> build]

PairInit ==
    /\ clock = 0
    /\ exists = TRUE
    /\ schedule \in Schedules
    /\ ParseStandard(schedule).err = "nil"
    /\ status = EmptyStatus
    /\ jobs = NoJobs
    /\ pc = "idle"
    /\ dbBackup = NoLocal
    /\ due = Queued
    /\ result = NoResult
    /\ pass = NewPass
    /\ created = 0
    /\ names = {}
    /\ cur = FirstPolicy
    /\ build = NoBuild
    /\ \E s \in Schedules :
        /\ ParseStandard(s).err = "nil"
        /\ peer = [NoPeer EXCEPT !.name = SecondPolicy, !.exists = TRUE,
                                 !.schedule = s, !.due = Queued,
                                 !.build.Spec.DatabaseType = "mysql"]

\* the manager goes on with the other policy
Swap ==
    /\ peer.name # ""
    /\ cur' = peer.name
    /\ exists' = peer.exists
    /\ schedule' = peer.schedule
    /\ status' = peer.status
    /\ pc' = peer.pc
    /\ dbBackup' = peer.dbBackup
    /\ due' = peer.due
    /\ result' = peer.result
    /\ pass' = peer.pass
    /\ build' = peer.build
    /\ peer' = Context
    /\ UNCHANGED <<clock, jobs, created, names>>

\* time passes for both policies
PairTick ==
    /\ Tick
    /\ clock' <= PairSeconds * Second
    /\ peer.pc \notin {"bootstrap", "create", "createFailed", "jobCreated",
                        "returned"}
    /\ (peer.pc = "idle" /\ peer.due # Nil) => clock' <= peer.due[1]

PairNext ==
    \/ QuietFetch
    \/ QuietBootstrap
    \/ QuietActiveJob
    \/ QuietJobDone
    \/ QuietScheduleEval
    \/ TriggerDecision
    \/ CreateJob
    \/ CreateFailed
    \/ QuietJobCreated
    \/ QuietRecompute
    \/ Requeue
    \/ Requeued
    \/ PairTick
    \/ JobProgress
    \/ JobDelete
    \/ Swap

PairSpec == PairInit /\ [][PairNext]_vars

----------------------------------------------------------------------------
(* A quiet run for every kind of policy Spec that createBackupJob tells     *)
(* apart: the database type, the storage type, the claim and the secret.     *)

\* the values of Spec.DatabaseType, Spec.StorageDestination.Type, .PVCName
\* and .SecretName that the model builds a Job for
DatabaseTypes == {"postgres", "mysql", "mongodb", "redis", "Postgres", ""}
StorageTypes == {"s3", "gcs", "pvc", ""}
PVCNames == {"", "backup-pvc"}
SecretNames == {"", "s3-credentials"}

BuildInit ==
    /\ clock = 0
    /\ exists = TRUE
    /\ schedule = EveryMinute
    /\ status = EmptyStatus
    /\ jobs = NoJobs
    /\ pc = "idle"
    /\ dbBackup = NoLocal
    /\ due = Queued
    /\ result = NoResult
    /\ pass = NewPass
    /\ created = 0
    /\ names = {}
    /\ cur = FirstPolicy
    /\ peer = NoPeer
    /\ \E d \in DatabaseTypes, t \in StorageTypes, c \in PVCNames,
          n \in SecretNames :
        build = [NoBuild EXCEPT !.Spec =
                    [SampleSpec EXCEPT
                        !.DatabaseType = d,
                        !.StorageDestination.Type = t,
                        !.StorageDestination.PVCName = c,
                        !.StorageDestination.SecretName = n]]

\* the passes up to the first job and those that find it running
BuildNext ==
    \/ QuietFetch
    \/ QuietBootstrap
    \/ QuietActiveJob
    \/ QuietScheduleEval
    \/ TriggerDecision
    \/ QuietCreateJob
    \/ QuietJobCreated
    \/ QuietRecompute
    \/ Requeue
    \/ Requeued
    \/ Tick

BuildSpec == BuildInit /\ [][BuildNext]_vars

----------------------------------------------------------------------------
(* Properties *)

\* the job named n is in the namespace with condition type t at "True"
JobHas(n, t) ==
    /\ n \in DOMAIN jobs
    /\ \E i \in 1..Len(jobs[n]) : jobs[n][i] = Cond(t, "True")

\* the job the pass looked up was there, with condition type t at "True"
LookedUp(t) ==
    /\ dbBackup.GetErr = "nil"
    /\ \E i \in 1..Len(dbBackup.Job) : dbBackup.Job[i] = Cond(t, "True")

\* field f of a schedule string admits the value v
Admits(f, v) == f.kind = "star" \/ (f.kind = "num" /\ f.n = v)

\* t is an activation time of the five-field schedule string s
IsTrigger(s, t) ==
    /\ t % Minute = 0
    /\ Admits(s[1], (t \div Minute) % 60)
    /\ Admits(s[2], (t \div (60 * Minute)) % 24)

\* n is the least activation time of s after t
IsLeastTriggerAfter(s, n, t) ==
    /\ n > t
    /\ IsTrigger(s, n)
    /\ \A k \in (t \div Minute)..(n \div Minute) :
           (t < k * Minute /\ k * Minute < n) => ~IsTrigger(s, k * Minute)

\* the premise of C1: the policy is there, and the pass started with no
\* active job, a schedule that parses, and the stored next scheduled time at
\* or before the time then
BackupDue ==
    /\ exists
    /\ pass.start.ActiveBackupJob = <<>>
    /\ ParseStandard(dbBackup.Schedule).err = "nil"
    /\ pass.late

\* the pass has returned without error after the requeue step
ReturnedOk == pc = "returned" /\ pass.ended = "requeue"

\* C1: a pass that starts with no active job, a valid schedule and the stored
\* next scheduled time at or before now, and whose calls all succeed, creates
\* exactly one job and returns with that job as the active job, status
\* Running, and a next scheduled time later than the one it started with
C1_DueBackupIsLaunched ==
    (ReturnedOk /\ BackupDue) =>
        /\ Len(pass.created) = 1
        /\ status.ActiveBackupJob = pass.created[1]
        /\ status.LastBackupStatus = "Running"
        /\ status.NextScheduledBackup[1] > pass.start.NextScheduledBackup[1]

\* the clock keeps advancing, and a pass is run each time one is due
KeepsRunning == []<><<Tick>>_vars /\ []<><<QuietFetch>>_vars

\* C2: in a quiet run in which the clock keeps advancing and a pass is run
\* after each returned delay, a job is eventually created
C2_EventuallyLaunches ==
    KeepsRunning => <>(created > 0)

\* C3: a step creates at most one job, and creates it only in a pass that has
\* created none and with no active job, in the stored status and in the
\* pass's copy
C3_NoJobWhileActive ==
    [][(DOMAIN jobs' \ DOMAIN jobs # {}) =>
          /\ Cardinality(DOMAIN jobs' \ DOMAIN jobs) = 1
          /\ pass.created = <<>>
          /\ dbBackup.Status.ActiveBackupJob = <<>>
          /\ status.ActiveBackupJob = <<>>]_vars

C3_Witness == pc = "recompute" /\ Len(pass.created) = 1 /\ created = 2

\* C4: when the pass has found the active job complete and writes the status,
\* the stored status has the time of the write as last successful backup,
\* Succeeded, no failure reason and no active job
C4_SucceededJobRecorded ==
    [][(/\ pc = "jobDone"
        /\ pc' = "schedule"
        /\ LookedUp("Complete")) =>
          status' = [status EXCEPT !.LastSuccessfulBackup = Some(clock),
                                   !.LastBackupStatus = "Succeeded",
                                   !.FailureReason = <<>>,
                                   !.ActiveBackupJob = <<>>]]_vars

C4_Witness ==
    /\ pc = "schedule"
    /\ pass.observed = "succeeded"
    /\ pass.start.FailureReason # <<>>
    /\ status.LastBackupStatus = "Succeeded"
    /\ status.LastSuccessfulBackup = Some(clock)

\* C5: when the pass has found the active job failed (and not complete) and
\* writes the status, the stored status is Failed with a failure reason and no
\* active job, and the last successful backup is as before
C5_FailedJobRecorded ==
    [][(/\ pc = "jobDone"
        /\ pc' = "schedule"
        /\ LookedUp("Failed")
        /\ ~LookedUp("Complete")) =>
          /\ status'.LastBackupStatus = "Failed"
          /\ status'.FailureReason # <<>>
          /\ status'.ActiveBackupJob = <<>>
          /\ status'.LastSuccessfulBackup = status.LastSuccessfulBackup]_vars

C5_Witness ==
    /\ pc = "schedule"
    /\ pass.observed = "failed"
    /\ status.LastBackupStatus = "Failed"
    /\ status.LastSuccessfulBackup # Nil

\* C6: when the lookup of the job named by the active job answers NotFound,
\* the pass does not return but goes on to the status write, and then either
\* writes the status with the active job cleared and nothing else changed and
\* goes on, or, the write failing, returns the write's error with the stored
\* status as it was: the lookup's NotFound is not returned
C6_AbsentJobClearsReference ==
    [][/\ (/\ pc = "activeJob" /\ pc' # "activeJob"
            /\ status.ActiveBackupJob # <<>>
            /\ status.ActiveBackupJob \notin DOMAIN jobs
            /\ pc' # "jobDone") =>
              /\ pc' = "returned"
              /\ result'.err \in Transient
       /\ (/\ pc = "jobDone" /\ pc' # "jobDone"
           /\ dbBackup.GetErr = "NotFound") =>
              \/ /\ pc' = "schedule"
                 /\ status' = [status EXCEPT !.ActiveBackupJob = <<>>]
              \/ /\ pc' = "returned"
                 /\ result'.err \in UpdateOutcomes \ {"nil"}
                 /\ status' = status]_vars

C6_Witness ==
    /\ pc = "schedule"
    /\ pass.observed = "absent"
    /\ status.ActiveBackupJob = <<>>
    /\ status.LastBackupStatus = "Running"

\* C7 as claimed: a pass that finds a schedule that does not parse returns no
\* error, with Error and a failure reason stored, no job created and the next
\* scheduled time as it was
C7_ParseFailureAlwaysRecorded ==
    [][(/\ pc = "schedule" /\ pc' # "schedule"
        /\ ParseStandard(dbBackup.Schedule).err # "nil") =>
          /\ pc' = "returned"
          /\ result'.err = "nil"
          /\ status'.LastBackupStatus = "Error"
          /\ status'.FailureReason # <<>>
          /\ jobs' = jobs /\ pass.created = <<>>
          /\ status'.NextScheduledBackup = pass.start.NextScheduledBackup]_vars

\* C7 as amended: such a pass creates no job and leaves the next scheduled
\* time as it was; when its status write succeeds it returns no error, with
\* Error and a failure reason stored, and when the write fails it returns the
\* write's error and stores nothing
C7_ParseFailureRecorded ==
    [][(/\ pc = "schedule" /\ pc' # "schedule"
        /\ ParseStandard(dbBackup.Schedule).err # "nil") =>
          /\ pc' = "returned"
          /\ jobs' = jobs /\ pass.created = <<>>
          /\ status'.NextScheduledBackup = status.NextScheduledBackup
          /\ exists => status.NextScheduledBackup
                           = pass.start.NextScheduledBackup
          /\ \/ /\ result'.err = "nil"
                /\ status'.LastBackupStatus = "Error"
                /\ status'.FailureReason # <<>>
             \/ /\ result'.err \in UpdateOutcomes \ {"nil"}
                /\ status' = status]_vars

C7_Witness ==
    /\ pc = "returned"
    /\ pass.ended = "parse"
    /\ result.err = "nil"
    /\ status.LastBackupStatus = "Error"
    /\ status.FailureReason # <<>>
    /\ pass.start.LastBackupStatus = "Error"
    /\ status.NextScheduledBackup # Nil

\* C8: a pass that ends on the parse failure returns the default requeue
\* delay of one minute
C8_ParseFailureRequeues ==
    (pc = "returned" /\ pass.ended = "parse") => result.RequeueAfter = Minute

\* C9: the delay returned with a next scheduled time set is never zero or
\* negative
C9_RequeueDelayPositive ==
    (ReturnedOk /\ status.NextScheduledBackup # Nil) => result.RequeueAfter > 0

\* the step that evaluates the schedule leaves, in the pass's copy, the least
\* activation time after the time of the evaluation as next scheduled time
EvaluatesNext ==
    [][(pc = "schedule" /\ pc' = "trigger") =>
          IsLeastTriggerAfter(dbBackup.Schedule,
                              dbBackup'.Status.NextScheduledBackup[1],
                              clock)]_vars

\* a pass over a policy that is there has returned without error and has
\* launched no job
ReturnedIdle == ReturnedOk /\ exists /\ pass.created = <<>>

\* C10 as claimed: after a pass that launched no job, the stored next
\* scheduled time is the least activation time after the time at which the
\* pass evaluated the schedule, and the returned delay is that time minus now
C10_DelayIsNextMinusNow ==
    /\ EvaluatesNext
    /\ [](ReturnedIdle =>
            /\ status.NextScheduledBackup = dbBackup.Status.NextScheduledBackup
            /\ result.RequeueAfter = status.NextScheduledBackup[1] - clock)

\* C10 as amended: ... and the returned delay is that time minus now when now
\* is not past it, and one second when it is
C10_NextAndDelay ==
    /\ EvaluatesNext
    /\ [](ReturnedIdle =>
            /\ status.NextScheduledBackup = dbBackup.Status.NextScheduledBackup
            /\ result.RequeueAfter =
                   IF status.NextScheduledBackup[1] - clock >= 0
                   THEN status.NextScheduledBackup[1] - clock
                   ELSE Second)

\* the schedule fires at 01:00, it is 00:30: the delay is 30 minutes
C10_Witness ==
    /\ ReturnedIdle
    /\ dbBackup.Schedule = DailyAtOne
    /\ clock = 30 * Minute
    /\ status.NextScheduledBackup = Some(60 * Minute)
    /\ result.RequeueAfter = 30 * Minute

\* C11 as claimed: while the policy is there, the stored next scheduled time,
\* once set, stays set and never goes back, schedule edits included
C11_NextNeverEarlier ==
    [][(status.NextScheduledBackup # Nil /\ exists') =>
          /\ status'.NextScheduledBackup # Nil
          /\ status'.NextScheduledBackup[1] >= status.NextScheduledBackup[1]]_vars

\* the stored next scheduled time is the one the schedule as it is now gave
\* at some earlier instant: the schedule was not edited since it was stored
NextIsOfSchedule ==
    /\ status.NextScheduledBackup # Nil
    /\ \E t \in ClockSamples :
        /\ t <= clock
        /\ IsLeastTriggerAfter(schedule, status.NextScheduledBackup[1], t)

\* C11 as amended: while the policy is there and its schedule is the one the
\* stored next scheduled time was computed from, the stored next scheduled
\* time stays set and never goes back
C11_NextNeverEarlierUnedited ==
    [][(NextIsOfSchedule /\ exists' /\ schedule' = schedule) =>
          /\ status'.NextScheduledBackup # Nil
          /\ status'.NextScheduledBackup[1] >= status.NextScheduledBackup[1]]_vars

\* a pass has moved the stored next scheduled time forward, from one that
\* the schedule had given
C11_Witness ==
    /\ pc \in {"trigger", "requeue"}
    /\ exists
    /\ pass.start.NextScheduledBackup # Nil
    /\ \E t \in ClockSamples :
        /\ t <= clock
        /\ IsLeastTriggerAfter(schedule, pass.start.NextScheduledBackup[1], t)
    /\ status.NextScheduledBackup[1] > pass.start.NextScheduledBackup[1]

\* C12 as claimed, for the passes that return without error while the policy
\* is there: a pass that found every status field unset leaves Pending stored
C12_FirstPassPending ==
    (ReturnedOk /\ exists /\ pass.start = EmptyStatus) =>
        status.LastBackupStatus = "Pending"

\* C12 as amended: a pass that found every status field unset and returns
\* without error while the policy is there leaves Pending stored when it
\* created no job, and Running when it created one
C12_FirstPassPendingOrRunning ==
    (ReturnedOk /\ exists /\ pass.start = EmptyStatus) =>
        status.LastBackupStatus =
            IF pass.created = <<>> THEN "Pending" ELSE "Running"

C12_Witness ==
    /\ ReturnedOk
    /\ exists
    /\ pass.start = EmptyStatus
    /\ pass.created = <<>>
    /\ status.LastBackupStatus = "Pending"
    /\ status.NextScheduledBackup # Nil

\* status st under schedule s at time now: bootstrapped, no active job, a
\* schedule that parses, and a next scheduled time that has not come
Quiescent(st, s, now) ==
    /\ st.LastBackupStatus # ""
    /\ st.ActiveBackupJob = <<>>
    /\ ParseStandard(s).err = "nil"
    /\ st.NextScheduledBackup # Nil
    /\ st.NextScheduledBackup[1] > now

\* C13 as claimed: a pass that has read a bootstrapped policy with a valid
\* schedule, no active job and no trigger due by the time it returns creates
\* no job and leaves the stored status as it found it
C13_QuiescentPassIsNoOp ==
    (/\ pc = "returned"
     /\ exists
     /\ Quiescent(pass.start, dbBackup.Schedule, clock)) =>
        /\ pass.created = <<>>
        /\ status = pass.start

\* C13 as amended: when, besides, the stored next scheduled time is the next
\* activation time of the schedule, the pass creates no job, writes nothing
\* and leaves the stored status as it found it (and so does a second pass at
\* the same instant, which finds the policy as the first did)
C13_QuiescentPassIdempotent ==
    (/\ pc = "returned"
     /\ exists
     /\ Quiescent(pass.start, dbBackup.Schedule, clock)
     /\ IsLeastTriggerAfter(dbBackup.Schedule,
                            pass.start.NextScheduledBackup[1], clock)) =>
        /\ pass.created = <<>>
        /\ pass.writes = 0
        /\ status = pass.start

\* a pass that found nothing to do and did nothing
C13_Witness ==
    /\ ReturnedOk
    /\ exists
    /\ Quiescent(pass.start, dbBackup.Schedule, clock)
    /\ IsLeastTriggerAfter(dbBackup.Schedule,
                           pass.start.NextScheduledBackup[1], clock)
    /\ pass.start.LastBackupStatus = "Succeeded"
    /\ pass.writes = 0
    /\ status = pass.start

\* C14: when the creation of the job fails, nothing is created and the pass
\* goes on to record the failure; it then returns the error of the creation
\* and leaves stored either the status as it was (its write failed) or that
\* status with Error and a failure reason that holds the error; the active
\* job stays empty and the next scheduled time is not touched
C14_SubmissionFailure ==
    [][/\ (pc = "create" /\ pc' # "create" /\ jobs' = jobs) =>
              /\ pc' = "createFailed"
              /\ dbBackup'.CreateErr # "nil"
              /\ dbBackup'.CreateErr
                     \in CreateOutcomes(JobName(PolicyName, clock))
              /\ pass'.created = pass.created
              /\ status' = status
       /\ (pc = "createFailed" /\ pc' # "createFailed") =>
              /\ pc' = "returned"
              /\ result'.err = dbBackup.CreateErr
              /\ result'.err # "nil"
              /\ result'.RequeueAfter = 0
              /\ pass'.created = pass.created
              /\ jobs' = jobs
              /\ status'.ActiveBackupJob = <<>>
              /\ status'.NextScheduledBackup = status.NextScheduledBackup
              /\ \/ status' = status
                 \/ status' = [status EXCEPT
                                  !.LastBackupStatus = "Error",
                                  !.FailureReason =
                                      <<"Failed to create backup job: ",
                                        result'.err>>]]_vars

\* the creation failed and the failure is stored
C14_Witness ==
    /\ pc = "returned"
    /\ result.err # "nil"
    /\ pass.created = <<>>
    /\ status.LastBackupStatus = "Error"
    /\ status.FailureReason = <<"Failed to create backup job: ", result.err>>
    /\ status.ActiveBackupJob = <<>>

\* the positions of a pass under way, after the fetch
MidPass == {"bootstrap", "activeJob", "jobDone", "schedule", "trigger",
            "create", "createFailed", "jobCreated", "recompute", "requeue"}

\* C15: a pass goes on only as long as its reads and writes succeed: while
\* it is under way and the policy is there, the status of its copy is the
\* stored status, and so is the schedule unless the policy has been edited
\* since the pass read it, after which the pass writes no status; and the
\* step in which a read or a write fails returns the error at once, with no
\* status written and no job created; only the write that records a failed
\* creation is let fail, and the pass returns then as well
C15_AbortOnError ==
    [][/\ (pc' \in MidPass /\ exists') =>
              /\ dbBackup'.Status = status'
              /\ ~dbBackup'.Stale => dbBackup'.Schedule = schedule'
              /\ dbBackup.Stale => status' = status
       /\ (/\ pc \in MidPass \cup {"idle"}
           /\ pc' = "returned"
           /\ pass'.ended = "error") =>
              /\ result'.err # "nil"
              /\ result'.RequeueAfter = 0
              /\ jobs' = jobs
              /\ pass'.created = pass.created
              /\ pc # "createFailed" =>
                     /\ status' = status
                     /\ pass'.writes = pass.writes]_vars

\* a pass that wrote the status and then failed
C15_Witness ==
    /\ pc = "returned"
    /\ pass.ended = "error"
    /\ result.err = "Transient"
    /\ pass.writes > 0
    /\ pass.created = <<>>

\* C16: a pass that does not find the policy returns no error and no requeue
\* delay, writes no status and creates no job
C16_PolicyNotFound ==
    (pc = "returned" /\ pass.ended = "notfound") =>
        /\ ~exists
        /\ result = [RequeueAfter |-> 0, err |-> "nil"]
        /\ pass.writes = 0
        /\ pass.created = <<>>
        /\ status = pass.start

\* the policy was deleted after a job had been created for it, and the pass
\* that followed found it gone, its job still there
C16_Witness ==
    /\ pc = "returned"
    /\ pass.ended = "notfound"
    /\ ~exists
    /\ jobs # NoJobs
    /\ result = NoResult

\* C17: the stored failure reason is empty unless the stored status is
\* Failed or Error
C17_ReasonOnlyWithFailure ==
    status.FailureReason # <<>> =>
        status.LastBackupStatus \in {"Failed", "Error"}

\* C18: the jobs created for the policy all have different names: there are
\* as many names as jobs created
C18_JobNamesDiffer == Cardinality(names) = created

\* two jobs were created, the first of them is gone
C18_Witness ==
    /\ created = 2
    /\ Cardinality(names) = 2
    /\ Cardinality(DOMAIN jobs) = 1

\* C19: while the policy is there, the stored status changes to Pending only
\* from unset, to Succeeded or Failed only in the status write of a pass that
\* has found the active job with that outcome, to Running only in the status
\* write that follows the creation of a job, to Error only in the step that
\* fails to parse the schedule or in the status write that follows a failed
\* creation, and never to unset
C19_StatusTransitions ==
    [][(status'.LastBackupStatus # status.LastBackupStatus /\ exists') =>
          CASE status'.LastBackupStatus = "Pending" ->
                   status.LastBackupStatus = "" /\ pc = "bootstrap"
            [] status'.LastBackupStatus = "Succeeded" ->
                   /\ pc = "jobDone"
                   /\ LookedUp("Complete")
            [] status'.LastBackupStatus = "Failed" ->
                   /\ pc = "jobDone"
                   /\ LookedUp("Failed")
                   /\ ~LookedUp("Complete")
            [] status'.LastBackupStatus = "Running" ->
                   /\ pc = "jobCreated"
                   /\ Len(pass.created) = 1
                   /\ status'.ActiveBackupJob = pass.created[1]
            [] status'.LastBackupStatus = "Error" ->
                   \/ /\ pc = "schedule"
                      /\ ParseStandard(dbBackup.Schedule).err # "nil"
                   \/ /\ pc = "createFailed"
                      /\ pass.created = <<>>
                      /\ result'.err # "nil"
            [] OTHER -> FALSE]_vars

\* a status that went from Succeeded to Error
C19_Witness ==
    /\ pc = "returned"
    /\ status.LastBackupStatus = "Error"
    /\ status.LastSuccessfulBackup # Nil
    /\ pass.start.LastBackupStatus = "Succeeded"

\* C20: a step of a pass for one policy leaves the other policy, its stored
\* status and its jobs as they are, looks up and creates only jobs that carry
\* its own policy's name, and never finds the name of its new job taken, as it
\* never does when the policy is alone in the namespace
C20_PassesIndependent ==
    [][(cur' = cur /\ pc' # pc) =>
          /\ peer' = peer
          /\ OwnedBy(jobs', peer.name) = OwnedBy(jobs, peer.name)
          /\ \A n \in DOMAIN jobs' \ DOMAIN jobs : n[1] = cur
          /\ status.ActiveBackupJob # <<>> => status.ActiveBackupJob[1] = cur
          /\ status'.ActiveBackupJob # <<>> => status'.ActiveBackupJob[1] = cur
          /\ result'.err # "AlreadyExists"]_vars

\* both policies have a job of the same second, and the pass of one looks its
\* job up while the pass of the other is under way
C20_Witness ==
    /\ pc = "activeJob"
    /\ peer.pc \in {"activeJob", "create"}
    /\ status.ActiveBackupJob \in DOMAIN jobs
    /\ \E n \in DOMAIN jobs :
        /\ n[1] = peer.name
        /\ n[2] = status.ActiveBackupJob[2]

\* C21: the Job's image is set whatever the database type is; postgres, mysql
\* and mongodb have an image each, different from one another and from the
\* generic image, and every other type, the empty one included, has the
\* generic image
C21_ImageForEveryType ==
    build.at # "entry" =>
        LET known == {"postgres", "mysql", "mongodb"}
            generic == getBackupImage("")
        IN  /\ build.job.Image # ""
            /\ build.Spec.DatabaseType \notin known <=> build.job.Image = generic
            /\ \A a, b \in known :
                   a # b => getBackupImage(a) # getBackupImage(b)

\* a Job built and submitted for a type that has no image of its own
C21_Witness ==
    /\ build.at = "built"
    /\ build.job.Name \in DOMAIN jobs
    /\ build.Spec.DatabaseType = "redis"
    /\ build.job.Image = "ghcr.io/example/generic-backup:latest"

\* the Job has the volume called name, mounted at path
Mounted(job, name, path) ==
    /\ \E i \in 1..Len(job.Volumes) : job.Volumes[i].Name = name
    /\ \E i \in 1..Len(job.VolumeMounts) :
           job.VolumeMounts[i] = VolumeMount(name, path)

\* C22: the built Job has the backup-storage volume at /backups exactly when
\* the destination type is pvc and the claim name is not empty, and the
\* storage-credentials volume at /credentials exactly when the secret name is
\* not empty; with both, the storage volume is first and the credentials
\* volume second, and the Job has no other volume or mount
C22_VolumesOfBuiltJob ==
    build.at = "built" =>
        LET dest == build.Spec.StorageDestination
            storage == dest.Type = "pvc" /\ dest.PVCName # ""
            credentials == dest.SecretName # ""
            count == (IF storage THEN 1 ELSE 0) + (IF credentials THEN 1 ELSE 0)
        IN  /\ storage <=> Mounted(build.job, "backup-storage", "/backups")
            /\ credentials <=>
                   Mounted(build.job, "storage-credentials", "/credentials")
            /\ Len(build.job.Volumes) = count
            /\ Len(build.job.VolumeMounts) = count
            /\ (storage /\ credentials) =>
                   /\ build.job.Volumes =
                          <<Volume("backup-storage", "pvc", dest.PVCName),
                            Volume("storage-credentials", "secret",
                                   dest.SecretName)>>
                   /\ build.job.VolumeMounts =
                          <<VolumeMount("backup-storage", "/backups"),
                            VolumeMount("storage-credentials", "/credentials")>>

\* a Job built and submitted with both volumes
C22_Witness ==
    /\ build.at = "built"
    /\ build.job.Name \in DOMAIN jobs
    /\ build.Spec.StorageDestination.Type = "pvc"
    /\ build.Spec.StorageDestination.PVCName # ""
    /\ build.Spec.StorageDestination.SecretName # ""
    /\ Len(build.job.Volumes) = 2

\* the jobs of the policy that have neither completed nor failed
InFlight == {n \in DOMAIN OwnedBy(jobs, cur) : ~isJobComplete(jobs[n])}

\* C23: at every moment at most one job of the policy is in flight
C23_AtMostOneInFlight == Cardinality(InFlight) <= 1

\* the job named n has completed, has failed or is gone
JobOver(n) ==
    n \notin DOMAIN jobs \/ JobHas(n, "Complete") \/ JobHas(n, "Failed")

\* the names a job of the first policy can have
FirstPolicyJobNames == {JobName(FirstPolicy, t) : t \in ClockSamples}

\* what the lookup of line 66 makes of a job that is over
FoundOver == {"absent", "succeeded", "failed", "complete"}

\* C24: a job that is over while the stored status refers to it stays over;
\* the pass that runs once it is over therefore finds it over, and a pass
\* that has found the job of the stored reference over and whose calls all
\* succeeded leaves a stored status without that reference; and in a quiet
\* run the stored reference to a job that is over is eventually gone
C24_FinishedJobCleared ==
    /\ [][(/\ status.ActiveBackupJob # <<>>
           /\ status'.ActiveBackupJob = status.ActiveBackupJob
           /\ JobOver(status.ActiveBackupJob))
              => JobOver(status.ActiveBackupJob)']_vars
    /\ [][(/\ pc = "activeJob" /\ pc' # "activeJob"
           /\ pass'.ended # "error"
           /\ dbBackup.Status.ActiveBackupJob # <<>>)
              => (pass'.observed \in FoundOver
                     <=> JobOver(dbBackup.Status.ActiveBackupJob))]_vars
    /\ [](/\ pc = "returned"
          /\ pass.ended # "error"
          /\ pass.start.ActiveBackupJob # <<>>
          /\ pass.observed \in FoundOver
          => status.ActiveBackupJob # pass.start.ActiveBackupJob)
    /\ \A n \in FirstPolicyJobNames :
           (status.ActiveBackupJob = n /\ JobOver(n))
               ~> (status.ActiveBackupJob # n)

\* a pass that found its job failed has returned, the reference cleared
C24_Witness ==
    /\ pc = "returned"
    /\ pass.ended # "error"
    /\ pass.observed = "failed"
    /\ pass.start.ActiveBackupJob \in DOMAIN jobs
    /\ isJobFailed(jobs[pass.start.ActiveBackupJob])
    /\ status.ActiveBackupJob = <<>>

\* a stored reference to a job goes with the stored status Running
RefMeansRunning(st) ==
    st.ActiveBackupJob # <<>> => st.LastBackupStatus = "Running"

\* C25: while the schedule parses, no step makes the stored status refer to
\* a job with a last backup status other than Running; and a pass that runs
\* with a valid schedule while the job the stored status refers to is there
\* and has neither completed nor failed leaves the stored reference and the
\* stored last backup status as they were
C25_ReferenceMeansRunning ==
    /\ RefMeansRunning(status)
    /\ [][(ParseStandard(schedule).err = "nil" /\ RefMeansRunning(status))
              => RefMeansRunning(status')]_vars
    /\ [](/\ pc = "returned"
          /\ exists
          /\ ParseStandard(dbBackup.Schedule).err = "nil"
          /\ pass.start.ActiveBackupJob # <<>>
          /\ ~JobOver(pass.start.ActiveBackupJob)
          => /\ status.ActiveBackupJob = pass.start.ActiveBackupJob
             /\ status.LastBackupStatus = pass.start.LastBackupStatus)

\* a pass has returned while the job it found referred to goes on
C25_Witness ==
    /\ ReturnedOk
    /\ exists
    /\ pass.start.ActiveBackupJob # <<>>
    /\ ~JobOver(pass.start.ActiveBackupJob)
    /\ status.ActiveBackupJob = pass.start.ActiveBackupJob
    /\ status.LastBackupStatus = "Running"

\* C26: while the policy is there, the stored time of the last successful
\* backup changes only in the status write of a pass that has found the job
\* the stored status refers to completed; it is then the time of that write,
\* it is set, and it is not earlier than the time stored before
C26_LastSuccessOnlyOnSuccess ==
    [][(status'.LastSuccessfulBackup # status.LastSuccessfulBackup /\ exists')
          => /\ pc = "jobDone"
             /\ LookedUp("Complete")
             /\ status'.LastSuccessfulBackup = Some(clock)
             /\ status.LastSuccessfulBackup # Nil =>
                    status'.LastSuccessfulBackup[1]
                        >= status.LastSuccessfulBackup[1]]_vars

\* a pass that found its job completed has moved the stored time of the last
\* successful backup forward
C26_Witness ==
    /\ pc = "returned"
    /\ pass.observed = "succeeded"
    /\ pass.start.LastSuccessfulBackup # Nil
    /\ status.LastSuccessfulBackup[1] > pass.start.LastSuccessfulBackup[1]

====
